---- MODULE Spec2Model ----
(***************************************************************************)
(* fib_imperative (experimental/riscv-sim/Extra/fib_imperative.cpp):       *)
(* the iterative Fibonacci loop over C++ `int` (32-bit two's complement),  *)
(* stepped one guard evaluation at a time, driven by a caller that makes   *)
(* a short, fixed list of calls and keeps what each call returned.         *)
(***************************************************************************)
EXTENDS Integers, Sequences, FiniteSets

\* ------------------------------------------------------------------ bounds
\* Largest argument passed to fib_imperative. 53 is the first argument whose
\* run has an addition of two negative wrapped values that overflows downwards.
MaxN == 54
\* Arguments go down to -NegN.
NegN == 2

Inputs == (0 - NegN)..MaxN

\* ------------------------------------------------------- the `int` type
\* INT_MAX of a 16-bit int.
IntMax16 == 128 * 256 - 1
\* INT_MAX of the 32-bit `int` every variable of the function is declared with.
IntMax == 2147483647
IntMin == (0 - IntMax) - 1

\* `a + b` leaves the range of int: signed overflow, undefined behaviour.
Overflows(a, b) ==
    \/ a > 0 /\ b > 0 /\ a > IntMax - b
    \/ a < 0 /\ b < 0 /\ a < IntMin - b

\* `a + b` as the two's complement add instruction computes it (mod 2^32,
\* read back as signed). No intermediate value leaves the 32-bit range.
WrapAdd(a, b) ==
    IF a > 0 /\ b > 0 /\ a > IntMax - b
      THEN ((a - IntMax) - 1) + ((b - IntMax) - 1)
      ELSE IF a < 0 /\ b < 0 /\ a < IntMin - b
             THEN ((a + IntMax) + 1) + ((b + IntMax) + 1)
             ELSE a + b

\* ------------------------------------------------------------------ state
VARIABLES
    args,       \* caller: the arguments of the calls it makes, in order
    rets,       \* caller: the values returned so far, in order
    pc,         \* "idle" | "guard" | "done" | "trapped"
    n,          \* parameter n
    fib1,       \* local fib1
    fib2,       \* local fib2
    fibonacci,  \* local fibonacci
    i,          \* local i
    iters,      \* number of times the loop body has run in this call
    overflowed  \* an addition of this call has overflowed

vars == <<args, rets, pc, n, fib1, fib2, fibonacci, i, iters, overflowed>>
frame == <<n, fib1, fib2, fibonacci, i, iters, overflowed>>

TypeOK ==
    /\ args \in Seq(Inputs)
    /\ rets \in Seq(IntMin..IntMax)
    /\ Len(rets) <= Len(args)
    /\ pc \in {"idle", "guard", "done", "trapped"}
    /\ n \in Inputs
    /\ fib1 \in IntMin..IntMax
    /\ fib2 \in IntMin..IntMax
    /\ fibonacci \in IntMin..IntMax
    /\ i \in Nat
    /\ iters \in Nat
    /\ overflowed \in BOOLEAN

\* No call has been made: there is no frame yet.
InitFrame ==
    /\ rets = <<>>
    /\ pc = "idle"
    /\ n = 0
    /\ fib1 = 0
    /\ fib2 = 0
    /\ fibonacci = 0
    /\ i = 0
    /\ iters = 0
    /\ overflowed = FALSE

\* One call.
Init ==
    /\ args \in {<<a>> : a \in Inputs}
    /\ InitFrame

\* Three calls on adjacent arguments: a, a-1, a-2.
InitRec ==
    /\ args \in {<<a, a - 1, a - 2>> : a \in 2..MaxN}
    /\ InitFrame

\* Two calls on any two arguments.
InitPair ==
    /\ args \in {<<a, b>> : a \in Inputs, b \in Inputs}
    /\ InitFrame

\* The same argument twice, with a call on any argument in between.
InitRepeat ==
    /\ args \in {<<a, b, a>> : a \in Inputs, b \in Inputs}
    /\ InitFrame

\* ---------------------------------------------------------------- actions
\* The loop condition `i < n`.
GuardLe(i_, n_) == i_ <= n_
GuardFrom3(i_, n_) == i_ + 1 < n_
Guard(i_, n_) == i_ < n_

\* Entry: the parameter is bound and the four locals are initialised.
CallStale ==
    /\ pc = "idle"
    /\ Len(rets) < Len(args)
    /\ n' = args[Len(rets) + 1]
    /\ IF i = 0
         THEN fib1' = 1 /\ fib2' = 1 /\ fibonacci' = 1 /\ i' = 2
         ELSE UNCHANGED <<fib1, fib2, fibonacci, i>>
    /\ iters' = 0
    /\ overflowed' = FALSE
    /\ pc' = "guard"
    /\ UNCHANGED <<args, rets>>
CallFromZero ==
    /\ pc = "idle"
    /\ Len(rets) < Len(args)
    /\ n' = args[Len(rets) + 1]
    /\ fib1' = 0
    /\ fib2' = 1
    /\ fibonacci' = fib1'
    /\ i' = 2
    /\ iters' = 0
    /\ overflowed' = FALSE
    /\ pc' = "guard"
    /\ UNCHANGED <<args, rets>>
Call ==
    /\ pc = "idle"
    /\ Len(rets) < Len(args)
    /\ n' = args[Len(rets) + 1]
    /\ fib1' = 1
    /\ fib2' = 1
    /\ fibonacci' = fib1'
    /\ i' = 2
    /\ iters' = 0
    /\ overflowed' = FALSE
    /\ pc' = "guard"
    /\ UNCHANGED <<args, rets>>

\* The four assignments of the loop body, `sum` being what fib1 + fib2 gave.
BodyNoShift(sum) ==
    /\ fibonacci' = sum
    /\ fib1' = fib1
    /\ fib2' = fibonacci'
    /\ i' = i + 1
    /\ iters' = iters + 1
BodyStaleReturn(sum) ==
    /\ fibonacci' = fib2
    /\ fib1' = fib2
    /\ fib2' = sum
    /\ i' = i + 1
    /\ iters' = iters + 1
Body(sum) ==
    /\ fibonacci' = sum
    /\ fib1' = fib2
    /\ fib2' = fibonacci'
    /\ i' = i + 1
    /\ iters' = iters + 1

\* The guard holds and fib1 + fib2 is in range: one iteration.
LoopStep ==
    /\ pc = "guard"
    /\ Guard(i, n)
    /\ ~Overflows(fib1, fib2)
    /\ Body(fib1 + fib2)
    /\ UNCHANGED <<args, rets, pc, n, overflowed>>

\* The guard holds and fib1 + fib2 overflows. Signed overflow is undefined:
\* a build whose add instruction wraps goes on with the wrapped sum, a build
\* that instruments signed arithmetic (-ftrapv, the overflow sanitizer)
\* aborts the program at the addition.
LoopOverflow ==
    /\ pc = "guard"
    /\ Guard(i, n)
    /\ Overflows(fib1, fib2)
    /\ \/ /\ Body(WrapAdd(fib1, fib2))
          /\ overflowed' = TRUE
          /\ UNCHANGED <<args, rets, pc, n>>
       \/ /\ pc' = "trapped"
          /\ overflowed' = TRUE
          /\ UNCHANGED <<args, rets, n, fib1, fib2, fibonacci, i, iters>>

\* The guard fails: the loop is left.
LoopExit ==
    /\ pc = "guard"
    /\ ~Guard(i, n)
    /\ pc' = "done"
    /\ UNCHANGED <<args, rets, frame>>

\* `return fibonacci;`: the caller receives the value.
Return ==
    /\ pc = "done"
    /\ rets' = Append(rets, fibonacci)
    /\ pc' = "idle"
    /\ UNCHANGED <<args, frame>>

Next ==
    \/ Call
    \/ LoopStep
    \/ LoopOverflow
    \/ LoopExit
    \/ Return

Spec == Init /\ [][Next]_vars
SpecRec == InitRec /\ [][Next]_vars
SpecPair == InitPair /\ [][Next]_vars
SpecRepeat == InitRepeat /\ [][Next]_vars

\* ------------------------------------------------- the reference sequence
\* F(1) = F(2) = 1, F(k) = F(k-1) + F(k-2), in unbounded arithmetic: a value
\* v is kept as <<v \div 2^16, v % 2^16>>, so that no term is cut to 32 bits.
Base == 256 * 256

Limbs(x) == <<x \div Base, x % Base>>

AddL(p, q) ==
    LET lo == p[2] + q[2]
    IN  <<p[1] + q[1] + (lo \div Base), lo % Base>>

\* <<F(k-1), F(k)>> for k >= 2.
RECURSIVE RefPair(_)
RefPair(k) ==
    IF k <= 2
      THEN <<Limbs(1), Limbs(1)>>
      ELSE LET p == RefPair(k - 1)
           IN  <<p[2], AddL(p[1], p[2])>>

F(k) == IF k <= 1 THEN Limbs(1) ELSE RefPair(k)[2]

\* A non-negative value mod 2^32, read as a signed 32-bit integer.
Signed32(p) ==
    LET h == p[1] % Base
    IN  (IF h >= Base \div 2 THEN h - Base ELSE h) * Base + p[2]

Max(a, b) == IF a >= b THEN a ELSE b

\* ------------------------------------------------------------------ claims

\* C1: for 1 <= n <= 46 (the arguments whose Fibonacci number fits in a
\* signed 32-bit integer) the call returns F(n) of the reference sequence.
C1_ReturnsFib ==
    /\ pc = "done" /\ 1 <= n /\ n <= 46 => Limbs(fibonacci) = F(n)
    /\ \A c \in 1..Len(rets) :
          1 <= args[c] /\ args[c] <= 46 => Limbs(rets[c]) = F(args[c])

C1_Witness ==
    /\ Len(rets) = 1
    /\ args[1] = 46
    /\ rets[1] = 1836311903

\* C2 as stated: for every n >= 2 the value returned for n is the sum of the
\* values returned for n-1 and n-2.
C2_RecurrenceFrom2 ==
    Len(rets) = 3 /\ args[1] >= 2
        => Limbs(rets[1]) = AddL(Limbs(rets[2]), Limbs(rets[3]))

\* C2 amended: for every 3 <= n <= 46 the value returned for n is the sum of
\* the values returned for n-1 and n-2.
C2_RecurrenceFrom3 ==
    Len(rets) = 3 /\ 3 <= args[1] /\ args[1] <= 46
        => Limbs(rets[1]) = AddL(Limbs(rets[2]), Limbs(rets[3]))

C2_Witness ==
    /\ Len(rets) = 3
    /\ args = <<46, 45, 44>>
    /\ rets[1] = rets[2] + rets[3]
    /\ rets[3] > 1

\* C3: for every n <= 2 (zero and negative n included) the guard i < n is
\* false the first time it is evaluated, the body runs zero times and the
\* call returns 1.
C3_NoLoopReturnsOne ==
    /\ pc = "guard" /\ n <= 2 => ~(i < n) /\ iters = 0
    /\ pc = "done" /\ n <= 2 => iters = 0 /\ fibonacci = 1
    /\ \A c \in 1..Len(rets) : args[c] <= 2 => rets[c] = 1

C3_Witness ==
    /\ Len(rets) = 1
    /\ args[1] < 0
    /\ rets[1] = 1
    /\ iters = 0

\* C4 as stated: for every 1 <= m <= n the value returned for m is at most
\* the value returned for n.
C4_MonotoneAll ==
    Len(rets) = 2 /\ 1 <= args[1] /\ args[1] <= args[2]
        => rets[1] <= rets[2]

\* C4 amended: for every 1 <= m <= n <= 46 the value returned for m is at
\* most the value returned for n.
C4_MonotoneInRange ==
    Len(rets) = 2 /\ 1 <= args[1] /\ args[1] <= args[2] /\ args[2] <= 46
        => rets[1] <= rets[2]

C4_Witness ==
    /\ Len(rets) = 2
    /\ args = <<23, 46>>
    /\ rets[1] < rets[2]

\* C5: the call returns 1, 1, 2, 3, 5 for n = 1, 2, 3, 4, 5 and 55 for n = 10.
C5_Value(a, v) ==
    /\ pc = "done" /\ n = a => fibonacci = v
    /\ \A c \in 1..Len(rets) : args[c] = a => rets[c] = v

C5_Table ==
    /\ C5_Value(1, 1)
    /\ C5_Value(2, 1)
    /\ C5_Value(3, 2)
    /\ C5_Value(4, 3)
    /\ C5_Value(5, 5)
    /\ C5_Value(10, 55)

C5_Witness ==
    /\ Len(rets) = 1
    /\ args[1] = 10
    /\ rets[1] = 55

\* C6: for every n the call ends in a return, no error is signalled, and the
\* body (the addition fib1 + fib2) has run exactly max(0, n - 2) times when
\* the call returns.
C6_AlwaysReturns ==
    /\ pc # "trapped"
    /\ pc = "done" => iters = Max(0, n - 2)

\* C7: for n >= 47 no failure is signalled, every addition wraps modulo 2^32,
\* the loop runs to completion and the call returns F(n) mod 2^32 read as a
\* signed 32-bit integer.
C7_SilentWrap ==
    /\ n >= 47 => pc # "trapped"
    /\ pc = "done" /\ n >= 47
          => fibonacci = Signed32(F(n)) /\ iters = n - 2

\* C8: each time the guard is evaluated, 2 <= i <= max(2, n), fibonacci = fib2
\* and, while no addition has overflowed, fib2 = F(i) and fib1 = F(i-1); the
\* returned variable fibonacci equals fib2 at the return.
C8_LoopInvariant ==
    /\ pc = "guard" =>
          /\ 2 <= i
          /\ i <= Max(2, n)
          /\ fibonacci = fib2
          /\ ~overflowed => Limbs(fib2) = F(i) /\ Limbs(fib1) = F(i - 1)
    /\ pc = "done" => fibonacci = fib2

C8_Witness ==
    /\ pc = "guard"
    /\ i = 46
    /\ n > 46
    /\ ~overflowed
    /\ fib1 = 1134903170
    /\ fib2 = 1836311903

\* C9: an iteration adds exactly 1 to i, makes the new fib1 the old fib2 and
\* the new fib2 the old fib1 + fib2 (the int sum: an iteration that goes on
\* past an overflowing addition holds the wrapped sum), and leaves n alone;
\* n is written nowhere between entry and return.
C9_Iteration ==
    [][ /\ pc # "idle" => n' = n
        /\ iters' = iters + 1 =>
              /\ i' = i + 1
              /\ fib1' = fib2
              /\ ~Overflows(fib1, fib2) => fib2' = fib1 + fib2
              /\ fib2' = WrapAdd(fib1, fib2)
              /\ n' = n ]_vars

C9_Witness ==
    /\ pc = "guard"
    /\ iters = 10
    /\ i = 12
    /\ fib1 = 89
    /\ fib2 = 144

\* C10: any two calls with the same argument return the same value, whatever
\* was called in between, and every call starts from fib1 = 1, fib2 = 1,
\* fibonacci = 1, i = 2.
C10_Deterministic ==
    /\ \A c \in 1..Len(rets) : \A d \in 1..Len(rets) :
          args[c] = args[d] => rets[c] = rets[d]
    /\ pc = "guard" /\ iters = 0 =>
          fib1 = 1 /\ fib2 = 1 /\ fibonacci = 1 /\ i = 2

C10_Witness ==
    /\ Len(rets) = 3
    /\ args = <<10, 20, 10>>
    /\ rets = <<55, 6765, 55>>

====
